---- MODULE Spec2Model ----
(***************************************************************************)
(* Vehicle counter: the counting process (backend.py) and the read-only    *)
(* aggregation queries of the dashboard (app.py).                          *)
(*                                                                         *)
(* Strings that the code strips are sequences of characters.  A wall-clock *)
(* instant is a number of days (the hour is 08:00); a formatted timestamp  *)
(* is the number day*24 + hour, from which the SQL DATE() of the queries   *)
(* takes the day back.  A confidence is in hundredths.  The memory of the  *)
(* process (its globals and loop variables) is gone once it has exited,    *)
(* and a loop variable holds a value only inside the for loop.             *)
(***************************************************************************)
EXTENDS Integers, Sequences, FiniteSets

VARIABLES
    pc,                  \* position of the counting process
    CAMERA_LOCATION_ID,  \* backend.py global: the active location
    counted_ids,         \* backend.py global: track ids already counted
    frame_count,         \* backend.py global: frames successfully acquired
    remaining,           \* detections of the current frame not yet iterated
    cur,                 \* loop variables box_id, cls, coord, conf
    timestamp,           \* loop variable timestamp
    cap_open,            \* the capture source is held
    csv_exists,          \* logs/vehicle_log_all.csv exists
    csv_open,            \* csv_file is open
    csv_disk,            \* rows of the log file on disk
    csv_buf,             \* rows written to csv_file and not yet flushed
    db_open,             \* db_conn is open
    db,                  \* committed rows of table vehicles
    db_pending,          \* rows of the open transaction of db_conn
    now,                 \* wall clock, in days
    fault,               \* the uncaught exception that ended the process
    csv_start,           \* event rows in the log when this run started
    db_start,            \* rows in the table when this run started
    last_good,           \* history: result of the latest successful non-empty read
    ret,                 \* loop variable ret of cap.read()
    loc_file,            \* current_camera_location.txt
    web_pc,              \* position of the web process
    web_loc,             \* location_id of the request being served
    resp                 \* the last HTTP response of the web process

vars == <<pc, CAMERA_LOCATION_ID, counted_ids, frame_count, remaining, cur,
          timestamp, cap_open, csv_exists, csv_open, csv_disk, csv_buf,
          db_open, db, db_pending, now, fault, csv_start, db_start, last_good,
          ret, loc_file, web_pc, web_loc, resp>>

(* No response yet *)
NoResp == [route |-> "none", loc |-> <<>>, status |-> 0]

(* What the counting process never writes *)
webvars == <<loc_file, web_pc, web_loc, resp>>

----------------------------------------------------------------------------
(* Bounds of the model *)

MaxFrames == 4
MaxDets == 1
MaxClock == 1

----------------------------------------------------------------------------
(* Configuration of backend.py *)

DEFAULT_CAMERA_LOCATION_ID == <<"j">>
count_line_position == 270
offset == 20
ConfThreshold == 50
CountedLabels == {"car", "motorcycle", "truck"}

Whitespace == {" ", "\n"}

(* str.strip(): drop leading and trailing whitespace, keep inner whitespace *)
RECURSIVE LStrip(_)
LStrip(s) == IF s # <<>> /\ Head(s) \in Whitespace THEN LStrip(Tail(s)) ELSE s

RECURSIVE RStrip(_)
RStrip(s) ==
    IF s # <<>> /\ s[Len(s)] \in Whitespace
    THEN RStrip(SubSeq(s, 1, Len(s) - 1))
    ELSE s

Strip(s) == RStrip(LStrip(s))

(* What a poll can find at LOCATION_CONFIG_FILE *)
FileContents ==
    { <<>>, <<" ", "\n">>, <<"K", "\n">>, <<" ", "S", " ", "N", " ">> }

FileStates ==
    { [st |-> "missing", content |-> <<>>],
      [st |-> "unreadable", content |-> <<"K">>] }
    \cup { [st |-> "ok", content |-> c] : c \in FileContents }

(* Variant: the content is not stripped *)
read_current_location_nostrip(f, loc) ==
    LET new_location == f.content
        tried == IF f.st = "ok" /\ new_location # <<>> /\ new_location # loc
                 THEN new_location
                 ELSE loc
    IN  IF tried = <<>> THEN DEFAULT_CAMERA_LOCATION_ID ELSE tried

(* read_current_location(): the value of CAMERA_LOCATION_ID it leaves *)
read_current_location(f, loc) ==
    LET new_location == Strip(f.content)
        tried == IF f.st = "ok" /\ new_location # <<>> /\ new_location # loc
                 THEN new_location
                 ELSE loc
    IN  IF tried = <<>> THEN DEFAULT_CAMERA_LOCATION_ID ELSE tried

----------------------------------------------------------------------------
(* Time *)

(* datetime.now().strftime("%Y-%m-%d %H:%M:%S") at tick n *)
Strftime(n) == n * 24 + 8

(* datetime.now().strftime("%Y-%m-%d") at tick n *)
StrfDate(n) == n

(* SQL DATE(timestamp) *)
SqlDate(ts) == ts \div 24

----------------------------------------------------------------------------
(* Detections *)

TrackIds == {1, 2}
(* Labels the tracker reports here: two counted ones and one that is not *)
Labels == {"car", "truck", "bus"}
Confs == {50, 51}
(* Boxes with centers 250, 250.5, 270 and 290 *)
Boxes == { [y1 |-> 249, y2 |-> 251], [y1 |-> 250, y2 |-> 251],
           [y1 |-> 269, y2 |-> 271], [y1 |-> 289, y2 |-> 291] }

Detections ==
    [box_id : TrackIds, label : Labels, conf : Confs, coord : Boxes]

NoDet == [box_id |-> 0, label |-> "none", conf |-> 0,
          coord |-> [y1 |-> 0, y2 |-> 0]]

(* center_y = int((y1 + y2) / 2), coordinates are not negative *)
CenterY(coord) == (coord.y1 + coord.y2) \div 2

(* Variant: the confidence test is not strict *)
Eligible_geq(d) == d.label \in CountedLabels /\ d.conf >= ConfThreshold

Eligible(d) == d.label \in CountedLabels /\ d.conf > ConfThreshold

(* Variant: the band includes its two boundaries *)
InZone_inclusive(center_y) ==
    /\ count_line_position - offset <= center_y
    /\ center_y <= count_line_position + offset

InZone(center_y) ==
    /\ count_line_position - offset < center_y
    /\ center_y < count_line_position + offset

(* Variant: no test on counted_ids *)
ShouldCount_nodedup(d, counted) ==
    /\ Eligible(d)
    /\ InZone(CenterY(d.coord))

ShouldCount(d, counted) ==
    /\ Eligible(d)
    /\ InZone(CenterY(d.coord))
    /\ d.box_id \notin counted

----------------------------------------------------------------------------
(* Rows *)

HeaderRow == [header |-> <<"Timestamp", "Vehicle Type", "Vehicle ID", "Location ID">>]

CsvRow(ts, label, box_id) ==
    [ts |-> ts, type |-> label, id |-> box_id, loc |-> CAMERA_LOCATION_ID]

(* Variant: the row carries the location the process started with *)
DbRow_default(ts, label, box_id) ==
    [ts |-> ts, type |-> label, id |-> box_id,
     loc |-> DEFAULT_CAMERA_LOCATION_ID]

DbRow(ts, label, box_id) ==
    [ts |-> ts, type |-> label, id |-> box_id, loc |-> CAMERA_LOCATION_ID]

IsEvent(r) == "ts" \in DOMAIN r

EventRows(s) == SelectSeq(s, IsEvent)

(* A row left by an earlier run *)
OldRow == [ts |-> Strftime(0), type |-> "car", id |-> 1,
           loc |-> DEFAULT_CAMERA_LOCATION_ID]

----------------------------------------------------------------------------
(* The counting process *)

Running == {"loop", "read", "zip", "det", "csv", "flush", "dbexec", "commit"}

(* What earlier runs can have left: no log file, an empty one, or a log
   with a row whose insert did or did not reach the table *)
PriorStores ==
    { [exists |-> FALSE, log |-> <<>>, table |-> <<>>],
      [exists |-> TRUE, log |-> <<>>, table |-> <<>>],
      [exists |-> TRUE, log |-> <<HeaderRow, OldRow>>, table |-> <<OldRow>>],
      [exists |-> TRUE, log |-> <<HeaderRow, OldRow>>, table |-> <<>>] }

Init ==
    /\ pc = "start"
    /\ CAMERA_LOCATION_ID = DEFAULT_CAMERA_LOCATION_ID
    /\ counted_ids = {}
    /\ frame_count = 0
    /\ remaining = 0
    /\ cur = NoDet
    /\ timestamp = 0
    /\ cap_open = FALSE
    /\ csv_open = FALSE
    /\ db_open = FALSE
    /\ \E p \in PriorStores :
          /\ csv_exists = p.exists
          /\ csv_disk = p.log
          /\ db = p.table
          /\ csv_start = Len(EventRows(p.log))
          /\ db_start = Len(p.table)
    /\ csv_buf = <<>>
    /\ db_pending = <<>>
    /\ now = 0
    /\ fault = "none"
    /\ last_good = DEFAULT_CAMERA_LOCATION_ID
    /\ ret = "unset"
    /\ loc_file = [st |-> "missing", content |-> <<>>]
    /\ web_pc = "down"
    /\ web_loc = <<>>
    /\ resp = NoResp

(* History of the polls: the latest successful non-empty read *)
NoteRead(f) ==
    last_good' = IF f.st = "ok" /\ Strip(f.content) # <<>>
                 THEN Strip(f.content)
                 ELSE last_good

(* Variant: the header is written at every start *)
StartOn_alwaysheader(f) ==
    /\ pc = "start"
    /\ cap_open' = TRUE
    /\ counted_ids' = {}
    /\ csv_exists' = TRUE
    /\ csv_open' = TRUE
    /\ csv_buf' = <<HeaderRow>>
    /\ db_open' = TRUE
    /\ csv_start' = Len(EventRows(csv_disk))
    /\ db_start' = Len(db)
    /\ CAMERA_LOCATION_ID' = read_current_location(f, CAMERA_LOCATION_ID)
    /\ NoteRead(f)
    /\ frame_count' = 0
    /\ pc' = "loop"
    /\ UNCHANGED <<remaining, cur, timestamp, csv_disk, db, db_pending, now, fault>>
    /\ UNCHANGED webvars
    /\ UNCHANGED ret

(* Module level of backend.py up to the first read of the location, which
   finds f *)
StartOn(f) ==
    /\ pc = "start"
    /\ cap_open' = TRUE
    /\ counted_ids' = {}
    /\ csv_exists' = TRUE
    /\ csv_open' = TRUE
    /\ csv_buf' = IF ~csv_exists \/ Len(csv_disk) = 0 THEN <<HeaderRow>> ELSE <<>>
    /\ db_open' = TRUE
    /\ csv_start' = Len(EventRows(csv_disk))
    /\ db_start' = Len(db)
    /\ CAMERA_LOCATION_ID' = read_current_location(f, CAMERA_LOCATION_ID)
    /\ NoteRead(f)
    /\ frame_count' = 0
    /\ pc' = "loop"
    /\ UNCHANGED <<remaining, cur, timestamp, csv_disk, db, db_pending, now, fault>>
    /\ UNCHANGED webvars
    /\ UNCHANGED ret

(* Top of the loop: the interval has not elapsed *)
NoPoll ==
    /\ pc = "loop"
    /\ pc' = "read"
    /\ UNCHANGED <<CAMERA_LOCATION_ID, counted_ids, frame_count, remaining, cur,
                   timestamp, cap_open, csv_exists, csv_open, csv_disk, csv_buf,
                   db_open, db, db_pending, now, fault, csv_start, db_start,
                   last_good>>
    /\ UNCHANGED webvars
    /\ UNCHANGED ret

(* Variant: the poll reads the file into a local name and leaves
   CAMERA_LOCATION_ID alone *)
PollOn_stale(f) ==
    /\ pc = "loop"
    /\ UNCHANGED CAMERA_LOCATION_ID
    /\ NoteRead(f)
    /\ pc' = "read"
    /\ UNCHANGED <<counted_ids, frame_count, remaining, cur, timestamp, cap_open,
                   csv_exists, csv_open, csv_disk, csv_buf, db_open, db,
                   db_pending, now, fault, csv_start, db_start>>
    /\ UNCHANGED webvars
    /\ UNCHANGED ret

(* Top of the loop: the interval has elapsed, the file is read and f is
   found *)
PollOn(f) ==
    /\ pc = "loop"
    /\ CAMERA_LOCATION_ID' = read_current_location(f, CAMERA_LOCATION_ID)
    /\ NoteRead(f)
    /\ pc' = "read"
    /\ UNCHANGED <<counted_ids, frame_count, remaining, cur, timestamp, cap_open,
                   csv_exists, csv_open, csv_disk, csv_buf, db_open, db,
                   db_pending, now, fault, csv_start, db_start>>
    /\ UNCHANGED webvars
    /\ UNCHANGED ret

(* The file is whatever its writers, the web process or anyone else, have
   left since the last read *)
Start == \E f \in FileStates : StartOn(f)

Poll == \E f \in FileStates : PollOn(f)

(* Variant: the frame index is advanced before ret is tested *)
ReadFail_counts ==
    /\ pc = "read"
    /\ frame_count < MaxFrames
    /\ frame_count' = frame_count + 1
    /\ pc' = "loop"
    /\ ret' = "failed"
    /\ UNCHANGED <<CAMERA_LOCATION_ID, counted_ids, remaining, cur, timestamp,
                   cap_open, csv_exists, csv_open, csv_disk, csv_buf, db_open,
                   db, db_pending, now, fault, csv_start, db_start, last_good>>
    /\ UNCHANGED webvars

(* cap.read() returns ret = False *)
ReadFail ==
    /\ pc = "read"
    /\ pc' = "loop"
    /\ UNCHANGED <<CAMERA_LOCATION_ID, counted_ids, frame_count, remaining, cur,
                   timestamp, cap_open, csv_exists, csv_open, csv_disk, csv_buf,
                   db_open, db, db_pending, now, fault, csv_start, db_start,
                   last_good>>
    /\ UNCHANGED webvars
    /\ ret' = "failed"

(* cap.read() returns a frame with an odd index: it is skipped *)
ReadSkip ==
    /\ pc = "read"
    /\ frame_count < MaxFrames
    /\ (frame_count + 1) % 2 # 0
    /\ frame_count' = frame_count + 1
    /\ pc' = "loop"
    /\ UNCHANGED <<CAMERA_LOCATION_ID, counted_ids, remaining, cur, timestamp,
                   cap_open, csv_exists, csv_open, csv_disk, csv_buf, db_open,
                   db, db_pending, now, fault, csv_start, db_start, last_good>>
    /\ UNCHANGED webvars
    /\ ret' = "ok"

(* cap.read() returns a frame with an even index: the tracker yields n
   detections (none when boxes.id is None) *)
ReadTrack ==
    /\ pc = "read"
    /\ frame_count < MaxFrames
    /\ (frame_count + 1) % 2 = 0
    /\ frame_count' = frame_count + 1
    /\ \E n \in 0 .. MaxDets : remaining' = n
    /\ pc' = "zip"
    /\ UNCHANGED <<CAMERA_LOCATION_ID, counted_ids, cur, timestamp, cap_open,
                   csv_exists, csv_open, csv_disk, csv_buf, db_open, db,
                   db_pending, now, fault, csv_start, db_start, last_good>>
    /\ UNCHANGED webvars
    /\ ret' = "ok"

(* The for loop takes the next detection of the frame, one of D *)
NextDetectionFrom(D) ==
    /\ pc = "zip"
    /\ remaining > 0
    /\ remaining' = remaining - 1
    /\ \E d \in D : cur' = d
    /\ pc' = "det"
    /\ UNCHANGED <<CAMERA_LOCATION_ID, counted_ids, frame_count, timestamp,
                   cap_open, csv_exists, csv_open, csv_disk, csv_buf, db_open,
                   db, db_pending, now, fault, csv_start, db_start, last_good>>
    /\ UNCHANGED webvars
    /\ UNCHANGED ret

NextDetection == NextDetectionFrom(Detections)

(* Variant: the track id is not added to counted_ids *)
Decide_noadd ==
    /\ pc = "det"
    /\ IF ShouldCount(cur, counted_ids)
       THEN /\ timestamp' = Strftime(now)
            /\ pc' = "csv"
            /\ UNCHANGED <<counted_ids, cur>>
       ELSE /\ pc' = "zip"
            /\ UNCHANGED <<counted_ids, timestamp, cur>>
    /\ UNCHANGED <<CAMERA_LOCATION_ID, frame_count, remaining, cap_open,
                   csv_exists, csv_open, csv_disk, csv_buf, db_open, db,
                   db_pending, now, fault, csv_start, db_start, last_good>>
    /\ UNCHANGED webvars
    /\ UNCHANGED ret

(* The label, confidence, zone and dedup tests on the detection *)
Decide ==
    /\ pc = "det"
    /\ IF ShouldCount(cur, counted_ids)
       THEN /\ counted_ids' = counted_ids \cup {cur.box_id}
            /\ timestamp' = Strftime(now)
            /\ pc' = "csv"
            /\ UNCHANGED cur
       ELSE /\ pc' = "zip"
            /\ UNCHANGED <<counted_ids, timestamp, cur>>
    /\ UNCHANGED <<CAMERA_LOCATION_ID, frame_count, remaining, cap_open,
                   csv_exists, csv_open, csv_disk, csv_buf, db_open, db,
                   db_pending, now, fault, csv_start, db_start, last_good>>
    /\ UNCHANGED webvars
    /\ UNCHANGED ret

(* The process is gone: its memory with it *)
ProcessGone ==
    /\ CAMERA_LOCATION_ID' = DEFAULT_CAMERA_LOCATION_ID
    /\ counted_ids' = {}
    /\ frame_count' = 0
    /\ remaining' = 0
    /\ cur' = NoDet
    /\ timestamp' = 0
    /\ last_good' = DEFAULT_CAMERA_LOCATION_ID
    /\ ret' = "unset"

(* An exception nobody catches: the interpreter exits, finalising csv_file
   (its buffer may or may not reach the disk) and dropping the transaction *)
Crash(why) ==
    /\ pc' = "crashed"
    /\ fault' = why
    /\ \E flushed \in BOOLEAN :
          csv_disk' = IF flushed THEN csv_disk \o csv_buf ELSE csv_disk
    /\ csv_buf' = <<>>
    /\ db_pending' = <<>>
    /\ ProcessGone
    /\ UNCHANGED <<cap_open, csv_exists, csv_open, db_open, db, now, csv_start,
                   db_start>>
    /\ UNCHANGED webvars

(* csv_writer.writerow(...) *)
CsvWrite ==
    /\ pc = "csv"
    /\ csv_buf' = Append(csv_buf, CsvRow(timestamp, cur.label, cur.box_id))
    /\ pc' = "flush"
    /\ UNCHANGED <<CAMERA_LOCATION_ID, counted_ids, frame_count, remaining, cur,
                   timestamp, cap_open, csv_exists, csv_open, csv_disk, db_open,
                   db, db_pending, now, fault, csv_start, db_start, last_good>>
    /\ UNCHANGED webvars
    /\ UNCHANGED ret

(* Variant: the row stays in the buffer of csv_file *)
CsvFlush_noflush ==
    /\ pc = "flush"
    /\ pc' = "dbexec"
    /\ UNCHANGED <<CAMERA_LOCATION_ID, counted_ids, frame_count, remaining, cur,
                   timestamp, cap_open, csv_exists, csv_open, csv_disk, csv_buf,
                   db_open, db, db_pending, now, fault, csv_start, db_start,
                   last_good>>
    /\ UNCHANGED webvars
    /\ UNCHANGED ret

(* csv_file.flush() *)
CsvFlush ==
    /\ pc = "flush"
    /\ csv_disk' = csv_disk \o csv_buf
    /\ csv_buf' = <<>>
    /\ pc' = "dbexec"
    /\ UNCHANGED <<CAMERA_LOCATION_ID, counted_ids, frame_count, remaining, cur,
                   timestamp, cap_open, csv_exists, csv_open, db_open, db,
                   db_pending, now, fault, csv_start, db_start, last_good>>
    /\ UNCHANGED webvars
    /\ UNCHANGED ret

(* Variant: the exception is caught and the loop goes on to the insert *)
CsvFail_swallowed ==
    /\ pc \in {"csv", "flush"}
    /\ pc' = "dbexec"
    /\ csv_buf' = <<>>
    /\ UNCHANGED <<CAMERA_LOCATION_ID, counted_ids, frame_count, remaining, cur,
                   timestamp, cap_open, csv_exists, csv_open, csv_disk, db_open,
                   db, db_pending, now, fault, csv_start, db_start, last_good>>
    /\ UNCHANGED webvars
    /\ UNCHANGED ret

(* writerow or flush raises *)
CsvFail ==
    /\ pc \in {"csv", "flush"}
    /\ Crash("csv")

(* db_cursor.execute("INSERT ...") *)
DbExecute ==
    /\ pc = "dbexec"
    /\ db_pending' = <<DbRow(timestamp, cur.label, cur.box_id)>>
    /\ pc' = "commit"
    /\ UNCHANGED <<CAMERA_LOCATION_ID, counted_ids, frame_count, remaining, cur,
                   timestamp, cap_open, csv_exists, csv_open, csv_disk, csv_buf,
                   db_open, db, now, fault, csv_start, db_start, last_good>>
    /\ UNCHANGED webvars
    /\ UNCHANGED ret

(* db_conn.commit() *)
DbCommit ==
    /\ pc = "commit"
    /\ db' = db \o db_pending
    /\ db_pending' = <<>>
    /\ pc' = "zip"
    /\ UNCHANGED <<CAMERA_LOCATION_ID, counted_ids, frame_count, remaining, cur,
                   timestamp, cap_open, csv_exists, csv_open, csv_disk, csv_buf,
                   db_open, now, fault, csv_start, db_start, last_good>>
    /\ UNCHANGED webvars
    /\ UNCHANGED ret

(* execute or commit raises *)
DbFail ==
    /\ pc \in {"dbexec", "commit"}
    /\ Crash("db")

(* cleanup(): close the log, release the capture, close the connection *)
cleanup ==
    /\ csv_disk' = csv_disk \o csv_buf
    /\ csv_buf' = <<>>
    /\ csv_open' = FALSE
    /\ cap_open' = FALSE
    /\ db_pending' = <<>>
    /\ db_open' = FALSE
    /\ pc' = "exited"
    /\ ProcessGone
    /\ UNCHANGED <<csv_exists, db, now, fault, csv_start, db_start>>
    /\ UNCHANGED webvars

(* SIGINT or SIGTERM, at any point of the loop *)
Signal ==
    /\ pc \in Running
    /\ cleanup

(* End of the frame: it is shown, ESC is pressed *)
EscKey ==
    /\ pc = "zip"
    /\ remaining = 0
    /\ cleanup

(* End of the frame: it is shown, no ESC *)
EndFrame ==
    /\ pc = "zip"
    /\ remaining = 0
    /\ pc' = "loop"
    /\ cur' = NoDet
    /\ timestamp' = 0
    /\ UNCHANGED <<CAMERA_LOCATION_ID, counted_ids, frame_count, remaining,
                   cap_open, csv_exists, csv_open, csv_disk, csv_buf,
                   db_open, db, db_pending, now, fault, csv_start, db_start,
                   last_good>>
    /\ UNCHANGED webvars
    /\ UNCHANGED ret

(* Time passes *)
Tick ==
    /\ pc # "start"
    /\ now < MaxClock
    /\ now' = now + 1
    /\ UNCHANGED <<pc, CAMERA_LOCATION_ID, counted_ids, frame_count, remaining,
                   cur, timestamp, cap_open, csv_exists, csv_open, csv_disk,
                   csv_buf, db_open, db, db_pending, fault, csv_start, db_start,
                   last_good>>
    /\ UNCHANGED webvars
    /\ UNCHANGED ret

Next ==
    \/ Start
    \/ NoPoll
    \/ Poll
    \/ ReadFail
    \/ ReadSkip
    \/ ReadTrack
    \/ NextDetection
    \/ Decide
    \/ CsvWrite
    \/ CsvFlush
    \/ CsvFail
    \/ DbExecute
    \/ DbCommit
    \/ DbFail
    \/ Signal
    \/ EscKey
    \/ EndFrame
    \/ Tick

Spec == Init /\ [][Next]_vars

TypeOK ==
    /\ pc \in Running \cup {"start", "exited", "crashed"}
    /\ counted_ids \subseteq TrackIds
    /\ frame_count \in 0 .. MaxFrames
    /\ remaining \in 0 .. MaxDets
    /\ now \in 0 .. MaxClock

----------------------------------------------------------------------------
(* The aggregation queries of app.py *)

CountRows(s, P(_)) == Cardinality({i \in DOMAIN s : P(s[i])})

(* summary_data: total_today *)
summary_total_today(location_id) ==
    LET today == StrfDate(now)
        Sel(r) == /\ SqlDate(r.ts) = today
                  /\ r.loc = location_id
                  /\ r.type # "bus"
    IN  CountRows(db, Sel)

(* vehicle_types_data *)
vehicle_types_data(location_id) ==
    LET today == StrfDate(now)
        Sel(r, t) == /\ SqlDate(r.ts) = today
                     /\ r.loc = location_id
                     /\ r.type # "bus"
                     /\ r.type = t
    IN  [t \in {"car", "truck", "motorcycle"} |->
            Cardinality({i \in DOMAIN db : Sel(db[i], t)})]

----------------------------------------------------------------------------
(* Events of the current run *)

IsPrefix(a, b) == Len(a) <= Len(b) /\ SubSeq(b, 1, Len(a)) = a

(* Event rows this run has put in the log file *)
RunCsv == SubSeq(EventRows(csv_disk), csv_start + 1, Len(EventRows(csv_disk)))

(* The same, with the rows still in the buffer of csv_file *)
RunCsvAll == RunCsv \o EventRows(csv_buf)

(* Rows this run has committed to the table *)
RunDb == SubSeq(db, db_start + 1, Len(db))

(* The same, with the row of the open transaction *)
RunDbAll == RunDb \o db_pending

Emitting == {"csv", "flush", "dbexec", "commit"}

LocationIds == {DEFAULT_CAMERA_LOCATION_ID, <<"K">>, <<"S", " ", "N">>}

----------------------------------------------------------------------------
(* C1: within one run, no track id has more than one event: at most one
   row of the log and at most one row of the table carry it, written or
   still in flight, whatever label or location it is seen with later. *)
C1_AtMostOneEventPerTrack ==
    \A id \in TrackIds :
        /\ Cardinality({i \in DOMAIN RunCsvAll : RunCsvAll[i].id = id}) <= 1
        /\ Cardinality({i \in DOMAIN RunDbAll : RunDbAll[i].id = id}) <= 1

(* A counted track is presented again inside the band, eligible, with
   another label and under another active location. *)
C1_Witness ==
    /\ pc = "det"
    /\ Eligible(cur)
    /\ InZone(CenterY(cur.coord))
    /\ \E i \in DOMAIN RunDb :
          /\ RunDb[i].id = cur.box_id
          /\ RunDb[i].type # cur.label
          /\ RunDb[i].loc # CAMERA_LOCATION_ID
    /\ RunCsv = RunDb

(* A confidence of at most 0.5, or a label that is not car, truck or
   motorcycle *)
LowOrForeign(d) ==
    d.conf <= 50 \/ d.label \notin {"car", "truck", "motorcycle"}

(* C2: every step that adds a track id to counted_ids, or a row to the log
   or to the table, is a step on a detection with a counted label and a
   confidence above 0.5; a detection that fails that test is dropped with
   counted_ids, the log and the table as they were. *)
C2_IneligibleNeverCounted ==
    [][ /\ ( \/ ~(counted_ids' \subseteq counted_ids)
             \/ Len(RunCsvAll') > Len(RunCsvAll)
             \/ Len(RunDbAll') > Len(RunDbAll) )
           => (cur # NoDet /\ ~LowOrForeign(cur))
        /\ (pc = "det" /\ LowOrForeign(cur) /\ pc' \in Running /\ pc' # "det")
           => /\ pc' = "zip"
              /\ counted_ids' = counted_ids
              /\ RunCsvAll' = RunCsvAll
              /\ RunDbAll' = RunDbAll
      ]_vars

(* A detection inside the band that fails the test has been dropped. *)
C2_Witness ==
    /\ pc = "zip"
    /\ cur # NoDet
    /\ LowOrForeign(cur)
    /\ InZone(CenterY(cur.coord))
    /\ cur.box_id \notin counted_ids
    /\ RunCsvAll = <<>>

(* C3: for an eligible detection not yet counted, a center exactly on
   either boundary of the band is dropped, and a center exactly on the
   line is counted. *)
C3_BoundaryExcluded ==
    [][ (/\ pc = "det"
         /\ Eligible(cur)
         /\ cur.box_id \notin counted_ids
         /\ pc' \in Running
         /\ pc' # "det")
        => /\ (cur.coord.y1 + cur.coord.y2
                   \in {2 * (count_line_position - offset),
                        2 * (count_line_position + offset)})
              => (pc' = "zip" /\ counted_ids' = counted_ids)
           /\ (cur.coord.y1 + cur.coord.y2 = 2 * count_line_position)
              => (pc' = "csv" /\ counted_ids' = counted_ids \cup {cur.box_id})
      ]_vars

(* An eligible detection with its center on the upper boundary of the band
   has been dropped. *)
C3_Witness ==
    /\ pc = "zip"
    /\ Eligible(cur)
    /\ cur.coord.y1 + cur.coord.y2 = 2 * (count_line_position + offset)
    /\ cur.box_id \notin counted_ids

(* C4: a row is written, to the log and to the table, with the active
   location at the moment of the write, and the two rows of one event
   hold the same location. *)
C4_LocationAtEmission ==
    /\ [][ /\ Len(EventRows(csv_buf')) > Len(EventRows(csv_buf))
              => csv_buf'[Len(csv_buf')].loc = CAMERA_LOCATION_ID
           /\ Len(db_pending') > Len(db_pending)
              => db_pending'[Len(db_pending')].loc = CAMERA_LOCATION_ID
         ]_vars
    /\ [](\A i \in DOMAIN RunDbAll :
             i \in DOMAIN RunCsv /\ RunDbAll[i].loc = RunCsv[i].loc)

(* Two crossings with a change of the active location between them: the
   earlier event holds the first location, the later one the second. *)
C4_Witness ==
    /\ Len(RunDb) = 2
    /\ RunCsv = RunDb
    /\ RunDb[1].loc = DEFAULT_CAMERA_LOCATION_ID
    /\ RunDb[2].loc = <<"S", " ", "N">>
    /\ CAMERA_LOCATION_ID = <<"S", " ", "N">>

(* C5: the rows this run has inserted in the table, the one of the open
   transaction included, are a prefix of the rows it has put in the log
   file, the log is ahead by at most one row, and the two are level
   whenever the loop is not in the middle of an event. *)
C5_LogFirstTableSecond ==
    /\ IsPrefix(RunDbAll, RunCsv)
    /\ Len(RunCsvAll) <= Len(RunDb) + 1
    /\ (pc \in Running \ Emitting) => (RunDb = RunCsvAll /\ db_pending = <<>>)

(* The log holds the row of the event in flight, the table not yet. *)
C5_Witness ==
    /\ pc = "dbexec"
    /\ Len(RunDb) = 1
    /\ Len(RunCsv) = 2
    /\ IsPrefix(RunDb, RunCsv)

(* C6: a failure of the insert or of the commit does not end the counting
   process. *)
C6_DbFailureNotFatal == ~(pc = "crashed" /\ fault = "db")

(* C7: the insert of an event is reached only with the row of that event
   in the log file, and a failure of the write or of the flush ends the
   process with the table as it was, no row of that event in it. *)
C7_LogFailureAbortsEvent ==
    /\ []( /\ (pc \in {"dbexec", "commit"})
              => /\ RunCsv # <<>>
                 /\ RunCsv[Len(RunCsv)]
                        = CsvRow(timestamp, cur.label, cur.box_id)
           /\ (fault = "csv")
              => (pc = "crashed" /\ db_pending = <<>>
                  /\ IsPrefix(RunDb, RunCsv)) )
    /\ [][ (pc \in {"csv", "flush"} /\ pc' \notin {pc, "flush", "dbexec", "exited"})
           => /\ pc' = "crashed"
              /\ fault' = "csv"
              /\ db' = db
              /\ \A i \in DOMAIN db' :
                    i > db_start => db'[i].id # cur.box_id
         ]_vars

(* The flush of the second event failed: the process has ended, the table
   holds the first event only. *)
C7_Witness ==
    /\ fault = "csv"
    /\ pc = "crashed"
    /\ Len(RunDb) = 1
    /\ Len(RunCsv) = 2

(* C8: after an interrupt the log file, the capture source and the
   connection are closed and every event of the run is in both sinks or
   in neither. *)
C8_NoPartialEventOnInterrupt ==
    (pc = "exited")
    => (~csv_open /\ ~cap_open /\ ~db_open /\ csv_buf = <<>> /\ RunCsv = RunDb)

(* C9: the active location is never empty and is the stripped content of
   the latest successful non-empty read, the default when there was none. *)
C9_LocationNeverEmpty ==
    /\ CAMERA_LOCATION_ID # <<>>
    /\ CAMERA_LOCATION_ID = last_good

(* A content with inner and outer whitespace has been read and the loop
   has gone on. *)
C9_Witness ==
    /\ pc = "zip"
    /\ frame_count = 4
    /\ CAMERA_LOCATION_ID = <<"S", " ", "N">>
    /\ last_good = <<"S", " ", "N">>

(* C10: between two frames of a run that started on an empty table, when every
   row is of today and of one location, total_today of that location is the
   number of track ids counted, and the breakdown gives the number of events
   of each type, 0 for a type without event. *)
C10_SummaryCountsDistinctTracks ==
    \A A \in LocationIds :
        (/\ pc \in {"loop", "read"}
         /\ db_start = 0
         /\ \A i \in DOMAIN db :
               SqlDate(db[i].ts) = StrfDate(now) /\ db[i].loc = A)
        => /\ summary_total_today(A) = Cardinality(counted_ids)
           /\ \A t \in {"car", "truck", "motorcycle"} :
                 vehicle_types_data(A)[t]
                     = Cardinality({i \in DOMAIN RunCsv : RunCsv[i].type = t})

(* Two tracks counted on one day at one location, a car and a truck. *)
C10_Witness ==
    /\ pc = "loop"
    /\ db_start = 0
    /\ Cardinality(counted_ids) = 2
    /\ \A i \in DOMAIN db :
          SqlDate(db[i].ts) = StrfDate(now) /\ db[i].loc = <<"K">>
    /\ summary_total_today(<<"K">>) = 2
    /\ vehicle_types_data(<<"K">>) = [car |-> 1, truck |-> 1, motorcycle |-> 0]

----------------------------------------------------------------------------
(* The exact center (y1 + y2) / 2 of a box is strictly inside the band *)
ExactInBand(coord) ==
    /\ 2 * (count_line_position - offset) < coord.y1 + coord.y2
    /\ coord.y1 + coord.y2 < 2 * (count_line_position + offset)

(* C17: an eligible detection not yet counted is counted if and only if its
   exact center is strictly inside the band: one that starts an event has
   it inside, one that was dropped has it outside. *)
C17_ExactCenterDecides ==
    /\ (pc = "csv") => ExactInBand(cur.coord)
    /\ (pc = "zip" /\ cur # NoDet /\ ~LowOrForeign(cur)
        /\ cur.box_id \notin counted_ids)
       => ~ExactInBand(cur.coord)

(* C18: a failed frame read leaves the counted set, the frame index, the log
   and the table as they were and the loop goes back to its top; a frame
   that is read advances the index by one and goes to detection exactly
   when the new index is even; detection and counting only run on an even
   index. *)
C18_FailedReadHasNoEffect ==
    [][ /\ (pc = "read" /\ pc' \in Running /\ pc' # "read")
           => \/ /\ ret' = "failed"
                 /\ pc' = "loop"
                 /\ fault' = "none"
                 /\ UNCHANGED <<counted_ids, frame_count, csv_disk, csv_buf,
                                db, db_pending>>
              \/ /\ ret' = "ok"
                 /\ frame_count' = frame_count + 1
                 /\ pc' = IF frame_count' % 2 = 0 THEN "zip" ELSE "loop"
                 /\ UNCHANGED <<counted_ids, csv_disk, csv_buf, db, db_pending>>
        /\ (pc' \in {"zip", "det"} \cup Emitting)
           => (frame_count' > 0 /\ frame_count' % 2 = 0)
      ]_vars

(* A read has failed after the second frame was counted on: the index is
   still that of the third frame and the event is where it was. *)
C18_Witness ==
    /\ pc = "loop"
    /\ ret = "failed"
    /\ frame_count = 3
    /\ Len(RunDb) = 1
    /\ RunCsv = RunDb

----------------------------------------------------------------------------
(* The web process (app.py) *)

(* Keys of LOCATIONS: Kudi, Shastri Nagar, Ratanada *)
LOCATIONS == { <<"K">>, <<"S", " ", "N">>, <<"R">> }

(* location_id of a URL: two keys of LOCATIONS and an id that is no key *)
RequestIds == { <<"K">>, <<"S", " ", "N">>, <<"x">> }

(* ?date= of a URL: absent, or a date *)
RequestDates == { <<>>, <<2>>, <<9>> }

(* now.weekday(): day 0 is a Monday *)
Weekday(d) == d % 7

(* strftime("%a") *)
DayName(d) == <<"Mon", "Tue", "Wed", "Thu", "Fri", "Sat", "Sun">>[(d % 7) + 1]

(* strftime('%H', timestamp): two digits *)
SqlHour(ts) == << (ts % 24) \div 10, (ts % 24) % 10 >>

(* int(hour) *)
PyInt(hh) == hh[1] * 10 + hh[2]

(* f"{hour:02d}:00", the digits of the hour *)
HourKey(h) == << h \div 10, h % 10 >>

(* now.strftime("%H") *)
StrfHour(n) == SqlHour(Strftime(n))

(* The web process leaves the counter and its sinks alone *)
WebOnly ==
    UNCHANGED <<pc, CAMERA_LOCATION_ID, counted_ids, frame_count, remaining,
                cur, timestamp, cap_open, csv_exists, csv_open, csv_disk,
                csv_buf, db_open, db, db_pending, now, fault, csv_start,
                db_start, last_good, ret>>

(* __main__: init_database, then the location file is initialised when it
   does not exist; LOCATIONS has no key "jodhpur", so that lookup raises
   before anything is written *)
WebStart ==
    /\ web_pc = "down"
    /\ web_pc' = IF loc_file.st = "missing" THEN "crashed" ELSE "idle"
    /\ UNCHANGED <<loc_file, web_loc, resp>>
    /\ WebOnly

(* Variant: any location_id is accepted *)
set_active_location_unchecked(location_id) ==
    /\ web_pc = "idle"
    /\ loc_file' = [st |-> "ok", content |-> <<>>]
    /\ web_loc' = location_id
    /\ web_pc' = "writing"
    /\ UNCHANGED resp
    /\ WebOnly

(* /set_location/<location_id>, up to open(LOCATION_CONFIG_FILE, 'w'),
   which truncates the file *)
set_active_location(location_id) ==
    /\ web_pc = "idle"
    /\ IF location_id \notin LOCATIONS
       THEN /\ resp' = [route |-> "set_location", loc |-> location_id,
                        status |-> 404]
            /\ UNCHANGED <<loc_file, web_loc, web_pc>>
       ELSE /\ loc_file' = [st |-> "ok", content |-> <<>>]
            /\ web_loc' = location_id
            /\ web_pc' = "writing"
            /\ UNCHANGED resp
    /\ WebOnly

SetLocation == \E l \in RequestIds : set_active_location(l)

(* write_current_location_to_file: f.write(location_id) and the close,
   then the redirect to the dashboard *)
WriteLocation ==
    /\ web_pc = "writing"
    /\ loc_file' = [st |-> "ok", content |-> web_loc]
    /\ resp' = [route |-> "set_location", loc |-> web_loc, status |-> 302]
    /\ web_loc' = <<>>
    /\ web_pc' = "idle"
    /\ WebOnly

(* write_current_location_to_file: the write raises, the exception is
   printed, the redirect follows *)
WriteLocationFail ==
    /\ web_pc = "writing"
    /\ resp' = [route |-> "set_location", loc |-> web_loc, status |-> 302]
    /\ web_loc' = <<>>
    /\ web_pc' = "idle"
    /\ UNCHANGED loc_file
    /\ WebOnly

(* /dashboard/<location_id> *)
dashboard(location_id) ==
    /\ web_pc = "idle"
    /\ resp' = [route |-> "dashboard", loc |-> location_id,
                status |-> IF location_id \notin LOCATIONS THEN 404 ELSE 200]
    /\ UNCHANGED <<loc_file, web_loc, web_pc>>
    /\ WebOnly

Dashboard == \E l \in RequestIds : dashboard(l)

----------------------------------------------------------------------------
(* The queries of app.py over table vehicles *)

(* Variant: the week has no lower end *)
WeekSel_all(r, location_id, week_start) ==
    /\ r.loc = location_id
    /\ r.type # "bus"

(* WHERE of total_week *)
WeekSel(r, location_id, week_start) ==
    /\ SqlDate(r.ts) >= week_start
    /\ r.loc = location_id
    /\ r.type # "bus"

(* Variant: the date is not tested *)
DaySel_anydate(r, location_id, date) ==
    /\ r.loc = location_id
    /\ r.type # "bus"

(* WHERE of total_today, of the peak hour, of vehicle-types and of hourly *)
DaySel(r, location_id, date) ==
    /\ SqlDate(r.ts) = date
    /\ r.loc = location_id
    /\ r.type # "bus"

(* Variant: the location is not tested *)
DailySel_anyloc(r, location_id, since) ==
    /\ SqlDate(r.ts) >= since
    /\ r.type # "bus"

(* WHERE of daily *)
DailySel(r, location_id, since) ==
    /\ SqlDate(r.ts) >= since
    /\ r.loc = location_id
    /\ r.type # "bus"

(* GROUP BY strftime('%H', timestamp): hour -> COUNT( * ) of the rows of a day *)
HourGroups(location_id, date) ==
    LET rows == {i \in DOMAIN db : DaySel(db[i], location_id, date)}
        hours == {SqlHour(db[i].ts) : i \in rows}
    IN  [hh \in hours |-> Cardinality({i \in rows : SqlHour(db[i].ts) = hh})]

(* summary_data: the summary, with the hour the query gives as peak *)
summary_body(location_id, peak) ==
    LET today == StrfDate(now)
        week_start == StrfDate(now - Weekday(now))
        current_hour == StrfHour(now)
    IN  [ total_today |->
              Cardinality({i \in DOMAIN db : DaySel(db[i], location_id, today)}),
          total_week |->
              Cardinality({i \in DOMAIN db :
                              WeekSel(db[i], location_id, week_start)}),
          peak_hour |-> peak,
          current_hour |->
              Cardinality({i \in DOMAIN db :
                              /\ SqlHour(db[i].ts) = current_hour
                              /\ DaySel(db[i], location_id, today)}) ]

(* ORDER BY COUNT( * ) DESC LIMIT 1: any hour with the greatest count, "00:00"
   when the day has no row *)
PeakHours(location_id) ==
    LET g == HourGroups(location_id, StrfDate(now))
    IN  IF DOMAIN g = {}
        THEN {HourKey(0)}
        ELSE {HourKey(PyInt(hh)) : hh \in
                 {h \in DOMAIN g : \A k \in DOMAIN g : g[k] <= g[h]}}

(* Variant: a type without rows has no key *)
vehicle_types_body_sparse(location_id) ==
    LET today == StrfDate(now)
        results == {t \in {"car", "truck", "motorcycle"} :
                       \E i \in DOMAIN db :
                           db[i].type = t /\ DaySel(db[i], location_id, today)}
    IN  [t \in results |->
            Cardinality({i \in DOMAIN db :
                            db[i].type = t
                            /\ DaySel(db[i], location_id, today)})]

(* vehicle_types_data: the date is today, whatever the URL says *)
vehicle_types_body(location_id) ==
    LET today == StrfDate(now)
        results == {t \in {db[i].type : i \in DOMAIN db} :
                       \E i \in DOMAIN db :
                           db[i].type = t /\ DaySel(db[i], location_id, today)}
    IN  [t \in {"car", "truck", "motorcycle"} |->
            IF t \in results
            THEN Cardinality({i \in DOMAIN db :
                                 db[i].type = t
                                 /\ DaySel(db[i], location_id, today)})
            ELSE 0]

(* hourly: 24 keys at 0, then one assignment for each group *)
hourly_body(location_id, date) ==
    LET g == HourGroups(location_id, date)
        keys == {HourKey(hour) : hour \in 0 .. 23}
        set == {HourKey(PyInt(hh)) : hh \in DOMAIN g}
    IN  [k \in keys \cup set |->
            IF k \in set
            THEN g[CHOOSE hh \in DOMAIN g : HourKey(PyInt(hh)) = k]
            ELSE 0]

(* daily: the dates today - i for i in range(7) *)
DailyDates(today) == {today - i : i \in 0 .. 6}

(* daily: date -> count for the dates of the window, from the rows since
   date('now', '-7 days'), where 'now' is the UTC date sqlnow *)
daily_data(location_id, sqlnow) ==
    [d \in DailyDates(StrfDate(now)) |->
        Cardinality({i \in DOMAIN db :
                        /\ DailySel(db[i], location_id, sqlnow - 7)
                        /\ SqlDate(db[i].ts) = d})]

(* daily: the day names, filled in the order of the sorted dates, a later
   date replacing an earlier one of the same name *)
daily_body(location_id, sqlnow) ==
    LET data == daily_data(location_id, sqlnow)
        names == {DayName(d) : d \in DOMAIN data}
        Latest(nm) == CHOOSE d \in DOMAIN data :
                          /\ DayName(d) = nm
                          /\ \A e \in DOMAIN data : DayName(e) = nm => e <= d
    IN  [nm \in names |-> data[Latest(nm)]]

(* The date a URL asks for: request.args.get("date", today) *)
DateArg(date) == IF date = <<>> THEN StrfDate(now) ELSE date[1]

(* The location_ids of the API requests: one of LOCATIONS and one that is not *)
QueryIds == { <<"K">>, DEFAULT_CAMERA_LOCATION_ID }

(* The API routes answer whatever the location_id is *)
Answer(route, location_id, date, body) ==
    /\ web_pc = "idle"
    /\ resp' = [route |-> route, loc |-> location_id, date |-> date,
                status |-> 200, body |-> body]
    /\ UNCHANGED <<loc_file, web_loc, web_pc>>
    /\ WebOnly

(* /api/<location_id>/traffic/summary *)
SummaryReq ==
    \E l \in QueryIds : \E peak \in PeakHours(l) :
        Answer("summary", l, <<>>, summary_body(l, peak))

(* /api/<location_id>/traffic/vehicle-types *)
VehicleTypesReq ==
    \E l \in QueryIds : \E date \in RequestDates :
        Answer("vehicle-types", l, date, vehicle_types_body(l))

(* /api/<location_id>/traffic/hourly *)
HourlyReq ==
    \E l \in QueryIds : \E date \in RequestDates :
        Answer("hourly", l, date, hourly_body(l, DateArg(date)))

(* /api/<location_id>/traffic/daily; the UTC date is the local one or a
   neighbour of it *)
DailyReq ==
    \E l \in QueryIds : \E utc \in {-1, 0, 1} :
        Answer("daily", l, <<>>, daily_body(l, StrfDate(now) + utc))

----------------------------------------------------------------------------
(* The queries on any table *)

MaxRows == 2

QueryDays == {1, 2, 3, 6, 7, 9, 13}

QueryRow(d, h, t, l) == [ts |-> d * 24 + h, type |-> t, id |-> 1, loc |-> l]

(* Rows of any day, and rows of day 9 of any hour, type and location *)
QueryRows ==
    { QueryRow(d, 8, "car", <<"K">>) : d \in QueryDays }
    \cup { QueryRow(9, r.h, r.t, r.l) :
              r \in [h : {8, 23}, t : {"car", "truck", "bus"},
                     l : {<<"K">>, DEFAULT_CAMERA_LOCATION_ID}] }

(* Tables of at most MaxRows rows, in the order of their insertion *)
QueryTables ==
    { t \in UNION { [1 .. n -> QueryRows] : n \in 0 .. MaxRows } :
         \A i \in 1 .. Len(t) - 1 : t[i].ts <= t[i + 1].ts }

(* A Wednesday and the Sunday of the same week *)
QueryNow == {9, 13}

(* The web process is up, the counter is not; the table holds rows of the past *)
QueryInit ==
    /\ pc = "start"
    /\ CAMERA_LOCATION_ID = DEFAULT_CAMERA_LOCATION_ID
    /\ counted_ids = {}
    /\ frame_count = 0
    /\ remaining = 0
    /\ cur = NoDet
    /\ timestamp = 0
    /\ cap_open = FALSE
    /\ csv_open = FALSE
    /\ db_open = FALSE
    /\ csv_exists = FALSE
    /\ csv_disk = <<>>
    /\ csv_buf = <<>>
    /\ now \in QueryNow
    /\ db \in { t \in QueryTables :
                  \A i \in DOMAIN t : SqlDate(t[i].ts) <= StrfDate(now) }
    /\ db_pending = <<>>
    /\ fault = "none"
    /\ csv_start = 0
    /\ db_start = Len(db)
    /\ last_good = DEFAULT_CAMERA_LOCATION_ID
    /\ ret = "unset"
    /\ loc_file = [st |-> "ok", content |-> <<"K">>]
    /\ web_pc = "idle"
    /\ web_loc = <<>>
    /\ resp = NoResp

QueryNext == SummaryReq \/ VehicleTypesReq \/ HourlyReq \/ DailyReq

QuerySpec == QueryInit /\ [][QueryNext]_vars

(* Every route with a location_id in its URL *)
RouteNext ==
    \/ SetLocation
    \/ WriteLocation
    \/ WriteLocationFail
    \/ Dashboard
    \/ SummaryReq
    \/ VehicleTypesReq
    \/ HourlyReq
    \/ DailyReq

RouteSpec == QueryInit /\ [][RouteNext]_vars

----------------------------------------------------------------------------
(* Claims on the queries *)

(* Stored events of a location that are not buses and satisfy P *)
NonBus(location_id, P(_)) ==
    Cardinality({i \in DOMAIN db :
                    /\ db[i].loc = location_id
                    /\ db[i].type # "bus"
                    /\ P(db[i])})

(* The date a request names, today when it names none *)
AskedDate == IF resp.date = <<>> THEN now ELSE resp.date[1]

(* The key "HH:00" of hour h *)
HH(h) == << h \div 10, h % 10 >>

RECURSIVE SumUpTo(_, _)
SumUpTo(body, h) == IF h < 0 THEN 0 ELSE body[HH(h)] + SumUpTo(body, h - 1)

(* C11: the hourly answer has exactly the 24 keys 00:00 .. 23:00, each the
   number of non-bus events of the asked location in that hour of the asked
   date, and the values sum to that day's non-bus total of the location *)
C11_HourlyIs24Counts ==
    (resp.route = "hourly") =>
        LET InHour(h) == NonBus(resp.loc, LAMBDA r : r.ts = AskedDate * 24 + h)
            OnDay == NonBus(resp.loc, LAMBDA r : r.ts \div 24 = AskedDate)
        IN  /\ DOMAIN resp.body = {HH(h) : h \in 0 .. 23}
            /\ \A h \in 0 .. 23 : resp.body[HH(h)] = InHour(h)
            /\ SumUpTo(resp.body, 23) = OnDay

(* C11: an hourly answer for an earlier date, with an event at 23:00 counted
   and an event of another location in the table *)
C11_Witness ==
    /\ resp.route = "hourly"
    /\ resp.date # <<>>
    /\ AskedDate # now
    /\ resp.body[HH(23)] = 1
    /\ \E i \in DOMAIN db : db[i].loc # resp.loc /\ db[i].ts \div 24 = AskedDate

(* C12 as stated: the vehicle-types answer gives, for any asked date, the
   number of stored events of each of car, truck and motorcycle at the asked
   location on that date *)
C12_BreakdownForAnyDate ==
    (resp.route = "vehicle-types") =>
        /\ DOMAIN resp.body = {"car", "truck", "motorcycle"}
        /\ \A t \in DOMAIN resp.body :
              resp.body[t] = NonBus(resp.loc, LAMBDA r :
                                 r.type = t /\ r.ts \div 24 = AskedDate)

(* C12 amended: the vehicle-types answer gives the number of stored events
   of each of car, truck and motorcycle at the asked location on the current
   day, with 0 for a type that did not occur *)
C12_BreakdownForToday ==
    (resp.route = "vehicle-types") =>
        /\ DOMAIN resp.body = {"car", "truck", "motorcycle"}
        /\ \A t \in DOMAIN resp.body :
              resp.body[t] = NonBus(resp.loc, LAMBDA r :
                                 r.type = t /\ r.ts \div 24 = now)

(* C12: an answer with a car, a truck and no motorcycle today *)
C12_Witness ==
    /\ resp.route = "vehicle-types"
    /\ resp.body["car"] = 1
    /\ resp.body["truck"] = 1
    /\ resp.body["motorcycle"] = 0

(* The Monday of the week of today *)
Monday == CHOOSE m \in now - 6 .. now : m % 7 = 0

(* C13: total_today is the number of non-bus events of the location dated
   today, total_week the number dated on or after the Monday of this week;
   an event of 8 days ago is in neither *)
C13_SummaryTotals ==
    (resp.route = "summary") =>
        /\ resp.body.total_today =
              NonBus(resp.loc, LAMBDA r : r.ts \div 24 = now)
        /\ resp.body.total_week =
              NonBus(resp.loc, LAMBDA r : r.ts \div 24 >= Monday)
        /\ resp.body.total_week <=
              NonBus(resp.loc, LAMBDA r : r.ts \div 24 # now - 8)
        /\ resp.body.total_today <=
              NonBus(resp.loc, LAMBDA r : r.ts \div 24 # now - 8)

(* C13: a summary over an event of 8 days ago and an event of this week's
   Monday, of the asked location *)
C13_Witness ==
    /\ resp.route = "summary"
    /\ \E i \in DOMAIN db : db[i].loc = resp.loc /\ db[i].ts \div 24 = now - 8
    /\ \E i \in DOMAIN db : db[i].loc = resp.loc /\ db[i].ts \div 24 = Monday
    /\ Monday # now
    /\ resp.body.total_week = 1
    /\ resp.body.total_today = 0

(* C14: the daily answer has at most 7 keys, one for each date of today and
   the 6 days before, each the number of non-bus events of the location on
   that date *)
C14_DailyPerDate ==
    (resp.route = "daily") =>
        /\ Cardinality(DOMAIN resp.body) <= 7
        /\ DOMAIN resp.body = {DayName(d) : d \in now - 6 .. now}
        /\ \A d, e \in now - 6 .. now : DayName(d) = DayName(e) => d = e
        /\ \A d \in now - 6 .. now :
              resp.body[DayName(d)] =
                  NonBus(resp.loc, LAMBDA r : r.ts \div 24 = d)

(* C14: a daily answer over an event of 7 days ago, which has the weekday
   of today, and an event of 6 days ago *)
C14_Witness ==
    /\ resp.route = "daily"
    /\ \E i \in DOMAIN db : db[i].loc = resp.loc /\ db[i].ts \div 24 = now - 7
    /\ \E i \in DOMAIN db : db[i].loc = resp.loc /\ db[i].ts \div 24 = now - 6
    /\ resp.body[DayName(now)] = 0
    /\ resp.body[DayName(now - 6)] = 1

(* C15: every route with a location_id in its URL answers a location_id
   that is not a key of LOCATIONS with 404 *)
C15_UnknownLocationNotFound ==
    (resp.route # "none" /\ resp.loc \notin LOCATIONS) => resp.status = 404

----------------------------------------------------------------------------
(* The counting process started again on the same log file *)

MaxLogRows == 2

(* The process is launched again after it exited or crashed, the stores
   being as it left them *)
Restart ==
    /\ pc \in {"exited", "crashed"}
    /\ Len(EventRows(csv_disk)) < MaxLogRows
    /\ pc' = "start"
    /\ fault' = "none"
    /\ UNCHANGED <<CAMERA_LOCATION_ID, counted_ids, frame_count, remaining, cur,
                   timestamp, cap_open, csv_exists, csv_open, csv_disk, csv_buf,
                   db_open, db, db_pending, now, csv_start, db_start, last_good,
                   ret>>
    /\ UNCHANGED webvars

(* A car on the line and a car off it *)
RestartDetections ==
    { d \in Detections : /\ d.label = "car"
                         /\ d.conf = 51
                         /\ d.coord.y1 \in {269, 289} }

(* The location file is not there *)
StartNoFile == StartOn([st |-> "missing", content |-> <<>>])

RestartNext ==
    \/ StartNoFile
    \/ NoPoll
    \/ ReadFail
    \/ ReadSkip
    \/ ReadTrack
    \/ NextDetectionFrom(RestartDetections)
    \/ Decide
    \/ CsvWrite
    \/ CsvFlush
    \/ CsvFail
    \/ DbExecute
    \/ DbCommit
    \/ DbFail
    \/ Signal
    \/ EscKey
    \/ EndFrame
    \/ Restart

RestartSpec == Init /\ [][RestartNext]_vars

(* A log of one header row followed by event rows only *)
OneHeaderFirst(s) ==
    /\ Len(s) >= 1
    /\ s[1] = HeaderRow
    /\ \A i \in 2 .. Len(s) : s[i] # HeaderRow /\ "ts" \in DOMAIN s[i]

(* C16: over any number of starts and stops on the same log file, the log,
   once it has a row, has exactly one header row, which is its first row,
   and event rows after it; this holds of the file with the rows the
   running process has written to it too; a stopped process leaves the header
   in the file; rows are only ever appended after the rows already there *)
C16_OneHeaderAcrossRestarts ==
    /\ [](csv_disk # <<>> => OneHeaderFirst(csv_disk))
    /\ [](pc \in Running => OneHeaderFirst(csv_disk \o csv_buf))
    /\ [](pc = "exited" => OneHeaderFirst(csv_disk))
    /\ [][ /\ Len(csv_disk) <= Len(csv_disk')
           /\ SubSeq(csv_disk', 1, Len(csv_disk)) = csv_disk ]_vars

(* C16: a second run, started on the log the first run created, has stopped
   after it appended a row *)
C16_Witness ==
    /\ pc = "exited"
    /\ Len(csv_disk) = 3
    /\ csv_disk[1] = HeaderRow
    /\ csv_disk[2].id = 2
    /\ csv_start = 1

----------------------------------------------------------------------------
(* The counter and the web process on the same location file *)

(* The counter reads the file as the web process has left it *)
StartFile == StartOn(loc_file)

PollFile == PollOn(loc_file)

(* Cars on the line *)
WebDetections ==
    { d \in Detections : /\ d.label = "car"
                         /\ d.conf = 51
                         /\ d.coord.y1 = 269 }

(* Neither process runs; the file is missing or holds a location written
   by an earlier run of the web process *)
WebInit ==
    /\ pc = "start"
    /\ CAMERA_LOCATION_ID = DEFAULT_CAMERA_LOCATION_ID
    /\ counted_ids = {}
    /\ frame_count = 0
    /\ remaining = 0
    /\ cur = NoDet
    /\ timestamp = 0
    /\ cap_open = FALSE
    /\ csv_open = FALSE
    /\ db_open = FALSE
    /\ csv_exists = FALSE
    /\ csv_disk = <<>>
    /\ csv_buf = <<>>
    /\ db = <<>>
    /\ db_pending = <<>>
    /\ now = 0
    /\ fault = "none"
    /\ csv_start = 0
    /\ db_start = 0
    /\ last_good = DEFAULT_CAMERA_LOCATION_ID
    /\ ret = "unset"
    /\ loc_file \in { [st |-> "missing", content |-> <<>>],
                      [st |-> "ok", content |-> <<"K">>] }
    /\ web_pc = "down"
    /\ web_loc = <<>>
    /\ resp = NoResp

(* A step of the counter that goes on with its loop *)
CounterStep ==
    \/ StartFile
    \/ NoPoll
    \/ PollFile
    \/ ReadFail
    \/ ReadSkip
    \/ ReadTrack
    \/ NextDetectionFrom(WebDetections)
    \/ Decide
    \/ CsvWrite
    \/ CsvFlush
    \/ DbExecute
    \/ DbCommit
    \/ EndFrame

WebNext ==
    \/ CounterStep
    \/ CsvFail
    \/ DbFail
    \/ Signal
    \/ EscKey
    \/ WebStart
    \/ SetLocation
    \/ WriteLocation
    \/ WriteLocationFail

WebSpec == WebInit /\ [][WebNext]_vars

(* The loop keeps iterating, and the 5 seconds of the poll interval elapse
   again and again *)
LiveSpec ==
    /\ WebInit
    /\ [][WebNext]_vars
    /\ WF_vars(CounterStep)
    /\ SF_vars(PollFile)

(* Event rows the counter has written, flushed and committed or not *)
AllRows == EventRows(csv_disk \o csv_buf) \o db \o db_pending

(* C20: the file holds a key of LOCATIONS, or nothing between the truncation
   and the write, and never anything else; a set_location answered 404 and
   the start of the web process leave the file as it is; every row the
   counter writes carries a key of LOCATIONS or the default of the counter *)
C20_OnlyKnownLocations ==
    /\ [](loc_file.content \in LOCATIONS \cup {<<>>})
    /\ [](\A i \in DOMAIN AllRows :
             AllRows[i].loc \in LOCATIONS \cup {DEFAULT_CAMERA_LOCATION_ID})
    /\ [][ /\ (resp' # resp /\ resp'.status = 404) => loc_file' = loc_file
           /\ (web_pc = "down" /\ web_pc' # "down") => loc_file' = loc_file
         ]_vars

(* C20: a committed row with a location the web process wrote, and a
   set_location of an unknown id answered 404 *)
C20_Witness ==
    /\ \E i \in DOMAIN db : db[i].loc = <<"S", " ", "N">>
    /\ resp.route = "set_location"
    /\ resp.status = 404
    /\ loc_file.content = <<"S", " ", "N">>

(* C19: once the file holds a location L, the running counter comes to have
   L as its location unless the file is written again or the loop ends; the
   location then stays while the file does; every row is written with the
   location of the counter at that moment; the location is never empty *)
C19_LocationEventuallyAdopted ==
    /\ \A L \in LOCATIONS :
          (loc_file = [st |-> "ok", content |-> L] /\ web_pc = "idle")
             ~> \/ CAMERA_LOCATION_ID = L
                \/ loc_file.content # L
                \/ pc \notin Running
    /\ [][ (/\ CAMERA_LOCATION_ID = loc_file.content
            /\ loc_file' = loc_file
            /\ pc' \in Running)
           => CAMERA_LOCATION_ID' = CAMERA_LOCATION_ID ]_vars
    /\ [][ /\ (Len(csv_buf') > Len(csv_buf) /\ pc = "csv")
              => csv_buf'[Len(csv_buf')].loc = CAMERA_LOCATION_ID
           /\ Len(db_pending') > Len(db_pending)
              => db_pending'[Len(db_pending')].loc = CAMERA_LOCATION_ID ]_vars
    /\ [](CAMERA_LOCATION_ID # <<>>)

(* C19: the counter, whose last frame read failed, has the location the web
   process selected second, after a row with the first and a row with the
   second *)
C19_Witness ==
    /\ pc \in Running
    /\ ret = "failed"
    /\ CAMERA_LOCATION_ID = <<"S", " ", "N">>
    /\ loc_file.content = <<"S", " ", "N">>
    /\ Len(db) = 2
    /\ db[1].loc = <<"K">>
    /\ db[2].loc = <<"S", " ", "N">>

====
